---- MODULE Spec2Model ----
(***************************************************************************)
(* Model of the backoffice front end:                                      *)
(*   - the useDebounce hook            (src/src/hooks/useDebounce.ts)      *)
(*   - the Users list view: its users query and the filter/sort pipeline   *)
(*                                      (src/src/pages/Login.tsx, Users)   *)
(*   - the UserDetail view: the user query and the dependent posts query   *)
(*                                      (src/src/pages/UserDetail.tsx)     *)
(* Each part has its own specification over its own variables; the other   *)
(* parts' variables stay at their initial values.                          *)
(***************************************************************************)
EXTENDS Integers, Sequences, FiniteSets, TLC

VARIABLES
  \* ---- useDebounce (one mounted consumer of the hook)
  value,            \* the hook's argument `value` at the last render
  delay,            \* the hook's argument `delay`
  debouncedValue,   \* useState: the settled value the hook returns
  handler,          \* id of the timeout the current effect scheduled
  timers,           \* the browser's pending timeouts: set of [id, val, due]
  mounted,          \* the consuming component is mounted
  clock,            \* time, in ticks of the timer
  \* history of the debounce run (read by the properties only)
  inputAt,          \* clock at the last change of `value`
  superseded,       \* ids of inputs replaced by a later input less than delay after
  emitted,          \* ids of inputs a timer propagated with setDebouncedValue
  firedUnmounted    \* a timer callback ran after the consumer was unmounted

dbVars == <<value, delay, debouncedValue, handler, timers, mounted, clock,
            inputAt, superseded, emitted, firedUnmounted>>

VARIABLES
  \* ---- the Users list view: state and memoised values of the pipeline
  users,            \* data of the users query (`data: users = []`)
  debouncedSearch,  \* useDebounce(searchTerm, 250)
  cityFilter,       \* useState("all")
  companyFilter,    \* useState("all")
  sortOrder,        \* useState("asc")
  cities,           \* useMemo [users]
  companies,        \* useMemo [users]
  filteredUsers,    \* useMemo [users, debouncedSearch, cityFilter, companyFilter, sortOrder]
  fetched           \* history: the list as the users query delivered it

viewVars == <<users, debouncedSearch, cityFilter, companyFilter, sortOrder,
              cities, companies, filteredUsers, fetched>>

VARIABLES
  \* ---- the queries of the list view and of the detail view (useQuery)
  route,            \* the mounted view: "away", "users" or "detail"
  id,               \* useParams().id of the detail view
  queries,          \* the query cache: the state of the query of each key
  now,              \* Date.now(), in minutes
  lastMount         \* history: what the last mount of the list view did to fetch

qVars == <<route, id, queries, now, lastMount>>

VARIABLES
  \* ---- the login form (Login)
  email,            \* useState(""): the text of the email field
  password,         \* useState(""): the text of the password field
  errors,           \* useState({ email: "", password: "" })
  loginIsLoading,   \* useState(false): `isLoading` of Login
  loginTimer,       \* the setTimeout(..., 500) of a submit is pending
  \* history of the form (read by the properties only)
  submits,          \* number of submit events handled
  submitWasValid    \* the last submit found a well-formed email and a password

loginVars == <<email, password, errors, loginIsLoading, loginTimer,
               submits, submitWasValid>>

vars == <<dbVars, viewVars, qVars, loginVars>>

otherThanDb    == <<viewVars, qVars, loginVars>>
otherThanView  == <<dbVars, qVars, loginVars>>
otherThanQuery == <<dbVars, viewVars, loginVars>>
otherThanLogin == <<dbVars, viewVars>>

(***************************************************************************)
(* Bounds                                                                  *)
(***************************************************************************)
MaxDelay  == 2      \* delays 0..MaxDelay ticks
MaxClock  == 5      \* the clock stops here
MaxInputs == 3      \* changes of `value` after the first render
MaxUsers  == 3      \* length of the fetched user list
MaxSearch == 2      \* length of the search text
MaxTime   == 6      \* minutes the query clock runs
MaxInflight == 2    \* loader invocations of one key outstanding at once
MaxEmail  == 5      \* length of the text of the email field
MaxSubmits == 2     \* submit events of the login form

Values == {"", "a", "ab"}

(***************************************************************************)
(* useDebounce                                                             *)
(***************************************************************************)
\* setTimeout(cb, delay): a new pending timeout, due `d` ticks from now; the
\* callback closes over the `value` of the render that ran the effect.
BadSetTimeout(ts, h, v, d) == ts \cup {[id |-> h, val |-> v, due |-> clock]}
setTimeout(ts, h, v, d) == ts \cup {[id |-> h, val |-> v, due |-> clock + d]}

\* clearTimeout(handler): drops that timeout if it is still pending.
BadClearTimeout(ts, h) == ts
clearTimeout(ts, h) == {t \in ts : t.id # h}

\* State after the first render and its effect: useState(value), one timeout.
DbStart ==
  /\ value \in Values
  /\ delay \in 0..MaxDelay
  /\ debouncedValue = value
  /\ handler = 0
  /\ clock = 0
  /\ timers = {[id |-> 0, val |-> value, due |-> delay]}
  /\ mounted = TRUE
  /\ inputAt = 0
  /\ superseded = {}
  /\ emitted = {}
  /\ firedUnmounted = FALSE

\* the list view before its first data: nothing typed, nothing selected
ViewIdle ==
  /\ users = << >>
  /\ debouncedSearch = << >>
  /\ cityFilter = "all"
  /\ companyFilter = "all"
  /\ sortOrder = "asc"
  /\ cities = << >>
  /\ companies = << >>
  /\ filteredUsers = << >>
  /\ fetched = << >>

\* the login form as it is first rendered
LoginIdle ==
  /\ email = << >>
  /\ password = ""
  /\ errors = [email |-> "", password |-> ""]
  /\ loginIsLoading = FALSE
  /\ loginTimer = FALSE
  /\ submits = 0
  /\ submitWasValid = FALSE

\* useQuery: retry is not set, so a failed queryFn is retried 3 times
\* ("Retry automatico em caso de erro"); staleTime is 5 minutes for the
\* users query and 0 for the queries of the detail view.
Retry     == 3
StaleTime == 5

NoId == "undefined"
Ids  == {"1"}

UsersKey    == <<"users">>
UserKey(i)  == <<"user", i>>
PostsKey(i) == <<"posts", i>>
Keys == {UsersKey} \cup {UserKey(i) : i \in Ids} \cup {PostsKey(i) : i \in Ids}

\* what a query holds as data: nothing yet, an empty list, or a user or a
\* list with elements
Payloads(k) == IF k[1] = "posts" THEN {"empty", "some"} ELSE {"some"}

\* a query nobody has fetched yet.  The cache drops a query that has had no
\* observer for 5 minutes; that is left out: the dropped query would be
\* fetched on the next mount, as the stale query it replaces is.
NewQuery ==
  [status |-> "loading", phase |-> "idle", failureCount |-> 0,
   retryCancelled |-> FALSE, hasData |-> FALSE, data |-> "none", updatedAt |-> 0,
   inflight |-> 0, abandoned |-> 0]

\* no view with a query is mounted, nothing was ever fetched
QueryIdle ==
  /\ route = "away"
  /\ id = NoId
  /\ queries = [k \in Keys |-> NewQuery]
  /\ now = 0
  /\ lastMount = [kind |-> "none", age |-> 0]

DbInit == DbStart /\ ViewIdle /\ QueryIdle /\ LoginIdle

\* A render with a changed `value`: the effect's dependency changed, so React
\* runs the previous effect's cleanup and then the effect again.
SetValue(v) ==
  /\ mounted
  /\ v # value
  /\ handler < MaxInputs
  /\ value' = v
  /\ handler' = handler + 1
  /\ timers' = setTimeout(clearTimeout(timers, handler), handler + 1, v, delay)
  /\ inputAt' = clock
  /\ superseded' = IF clock - inputAt < delay THEN superseded \cup {handler}
                                              ELSE superseded
  /\ UNCHANGED <<delay, debouncedValue, mounted, clock, emitted, firedUnmounted>>
  /\ UNCHANGED otherThanDb

\* The timeout's callback: setDebouncedValue(value) of the render it closed over.
TimerFire ==
  \E t \in timers :
    /\ t.due <= clock
    /\ timers' = timers \ {t}
    /\ debouncedValue' = t.val
    /\ emitted' = emitted \cup {t.id}
    /\ firedUnmounted' = (firedUnmounted \/ ~mounted)
    /\ UNCHANGED <<value, delay, handler, mounted, clock, inputAt, superseded>>
    /\ UNCHANGED otherThanDb

\* The consumer unmounts: React runs the effect's cleanup.
Unmount ==
  /\ mounted
  /\ mounted' = FALSE
  /\ timers' = clearTimeout(timers, handler)
  /\ UNCHANGED <<value, delay, debouncedValue, handler, clock, inputAt,
                 superseded, emitted, firedUnmounted>>
  /\ UNCHANGED otherThanDb

\* Time passes; a due timeout runs before the clock moves on.
DbTick ==
  /\ clock < MaxClock
  /\ \A t \in timers : t.due > clock
  /\ clock' = clock + 1
  /\ UNCHANGED <<value, delay, debouncedValue, handler, timers, mounted,
                 inputAt, superseded, emitted, firedUnmounted>>
  /\ UNCHANGED otherThanDb

DbNext ==
  \/ \E v \in Values : SetValue(v)
  \/ TimerFire
  \/ Unmount
  \/ DbTick

SpecDebounce == DbInit /\ [][DbNext]_vars

(***************************************************************************)
(* Properties of useDebounce                                               *)
(***************************************************************************)
\* C1: once no new input has arrived for at least `delay` (the pending
\* timeout, due at that instant, has run), the settled value is the last
\* input; and no timeout ever propagates an input that a later input
\* replaced less than `delay` after it (last write wins).
C1_LastInputSettles ==
  /\ (mounted /\ clock - inputAt >= delay /\ timers = {}) => debouncedValue = value
  /\ (mounted /\ clock - inputAt > delay) => (timers = {} /\ debouncedValue = value)
  /\ emitted \cap superseded = {}

\* an input was replaced inside its window, a later one settled after a
\* quiet period, and the value differs from the first one
C1_Witness ==
  /\ mounted
  /\ superseded # {}
  /\ handler \in emitted
  /\ delay > 0
  /\ clock - inputAt >= delay
  /\ debouncedValue = value

\* C2: after the consumer is unmounted no timeout is pending and no timeout
\* callback runs any more.
C2_NoFireAfterUnmount ==
  /\ ~mounted => timers = {}
  /\ ~firedUnmounted

\* unmounted while the propagation of a changed value was still pending, and
\* time has since passed the moment it was due
C2_Witness ==
  /\ ~mounted
  /\ debouncedValue # value
  /\ clock > inputAt + delay

(***************************************************************************)
(* useDebounce with a delay that changes between renders                   *)
(***************************************************************************)
\* an effect that is run again without the cleanup of the previous one
BadSetDelay(d) ==
  /\ mounted
  /\ d # delay
  /\ handler < MaxInputs
  /\ delay' = d
  /\ handler' = handler + 1
  /\ timers' = setTimeout(timers, handler + 1, value, d)
  /\ UNCHANGED <<value, debouncedValue, mounted, clock, inputAt, superseded,
                 emitted, firedUnmounted>>
  /\ UNCHANGED otherThanDb

\* A render with a changed `delay`: `delay` is a dependency of the effect as
\* `value` is, so the cleanup runs and the effect schedules the current
\* `value` again, `d` from now.
SetDelay(d) ==
  /\ mounted
  /\ d # delay
  /\ handler < MaxInputs
  /\ delay' = d
  /\ handler' = handler + 1
  /\ timers' = setTimeout(clearTimeout(timers, handler), handler + 1, value, d)
  /\ UNCHANGED <<value, debouncedValue, mounted, clock, inputAt, superseded,
                 emitted, firedUnmounted>>
  /\ UNCHANGED otherThanDb

DbDelayNext ==
  \/ DbNext
  \/ \E d \in 0..MaxDelay : SetDelay(d)

SpecDebounceDelay == DbInit /\ [][DbDelayNext]_vars

\* C12: at most one timeout is pending at any time, and it is the one the
\* last render with a changed `value` or `delay` scheduled, for the current
\* `value`; the timeout of the render before it is gone.
C12_OnePendingTimer ==
  /\ Cardinality(timers) <= 1
  /\ \A t \in timers : t.id = handler /\ t.val = value /\ mounted

\* the value changed and then the delay changed, at a later time; the one
\* pending timeout is the one scheduled for the new delay
C12_Witness ==
  /\ handler = 2
  /\ value # debouncedValue
  /\ Cardinality(timers) = 1
  /\ \A t \in timers : t.due # inputAt + delay /\ t.due > clock

(***************************************************************************)
(* Strings: sequences of characters                                        *)
(***************************************************************************)
Chars == {"A", "a", "B", "b", "N", "n", "@"}

\* String.prototype.toLowerCase
LowerChar(c) == CASE c = "A" -> "a" [] c = "B" -> "b" [] c = "N" -> "n" [] OTHER -> c
toLowerCase(s) == [i \in 1..Len(s) |-> LowerChar(s[i])]

\* String.prototype.includes: `sub` occurs in `s` at some offset
includes(s, sub) ==
  \E i \in 0..(Len(s) - Len(sub)) : SubSeq(s, i + 1, i + Len(sub)) = sub

\* three-way lexicographic comparison of two sequences of numbers
RECURSIVE LexCompare(_, _)
LexCompare(x, y) ==
  IF x = << >> THEN (IF y = << >> THEN 0 ELSE -1)
  ELSE IF y = << >> THEN 1
  ELSE IF Head(x) < Head(y) THEN -1
  ELSE IF Head(x) > Head(y) THEN 1
  ELSE LexCompare(Tail(x), Tail(y))

\* String.prototype.localeCompare(b, "pt"): the letters decide first, whatever
\* their case; between strings of the same letters the case decides, lower
\* case first; 0 only for equal strings.
PrimaryWeight(c) ==
  CASE c = "@" -> 0 [] c \in {"a", "A"} -> 1 [] c \in {"b", "B"} -> 2 [] OTHER -> 3
CaseWeight(c) == IF c \in {"A", "B", "N"} THEN 1 ELSE 0
localeCompare(a, b) ==
  LET p == LexCompare([i \in 1..Len(a) |-> PrimaryWeight(a[i])],
                      [i \in 1..Len(b) |-> PrimaryWeight(b[i])])
  IN IF p # 0 THEN p
     ELSE LexCompare([i \in 1..Len(a) |-> CaseWeight(a[i])],
                     [i \in 1..Len(b) |-> CaseWeight(b[i])])

\* UTF-16 code units of the city and company names (the default sort order)
CodeUnits(s) ==
  CASE s = "Gwenborough" -> <<71, 119, 101, 110, 98, 111, 114, 111, 117, 103, 104>>
    [] s = "Howemouth"   -> <<72, 111, 119, 101, 109, 111, 117, 116, 104>>
    [] s = "Romaguera"   -> <<82, 111, 109, 97, 103, 117, 101, 114, 97>>
    [] s = "Deckow"      -> <<68, 101, 99, 107, 111, 119>>
    [] s = "all"         -> <<97, 108, 108>>

(***************************************************************************)
(* The users the API may return                                            *)
(***************************************************************************)
MkUser(i, n, e, c, k) ==
  [id |-> i, name |-> n, email |-> e, address |-> [city |-> c], company |-> [name |-> k]]

User1 == MkUser(1, <<"A", "n", "n">>, <<"b", "@", "b">>,      "Gwenborough", "Romaguera")
User2 == MkUser(2, <<"N", "b">>,      <<"a", "n", "@", "b">>, "Howemouth",   "Romaguera")
User3 == MkUser(3, <<"a", "n", "n">>, <<"n", "@", "b">>,      "Gwenborough", "Deckow")
User4 == MkUser(4, <<"N", "b">>,      <<"n", "@", "n">>,      "Howemouth",   "Deckow")
UserPool == {User1, User2, User3, User4}

Range(s) == {s[i] : i \in 1..Len(s)}

\* GET /users: a list of users with distinct ids
UserLists ==
  {l \in UNION {[1..n -> UserPool] : n \in 0..MaxUsers} :
     \A i, j \in 1..Len(l) : i # j => l[i].id # l[j].id}

SearchChars == {"A", "n", "@"}
SearchTexts == UNION {[1..n -> SearchChars] : n \in 0..MaxSearch}

(***************************************************************************)
(* The filter/sort pipeline of the list view                               *)
(***************************************************************************)
\* 1. Pesquisa: name or email contains the search text, both lower-cased
BadTextFilter(us, search) ==
  IF search # << >>
  THEN LET searchLower == toLowerCase(search)
       IN SelectSeq(us, LAMBDA user :
            \/ includes(user.name, searchLower)
            \/ includes(toLowerCase(user.email), searchLower))
  ELSE us
TextFilter(us, search) ==
  IF search # << >>
  THEN LET searchLower == toLowerCase(search)
       IN SelectSeq(us, LAMBDA user :
            \/ includes(toLowerCase(user.name), searchLower)
            \/ includes(toLowerCase(user.email), searchLower))
  ELSE us

\* 2. Filtro por cidade
BadCityFilterStep(us, city) ==
  SelectSeq(us, LAMBDA user : user.address.city = city)
CityFilterStep(us, city) ==
  IF city # "all" THEN SelectSeq(us, LAMBDA user : user.address.city = city) ELSE us

\* 3. Filtro por empresa
CompanyFilterStep(us, company) ==
  IF company # "all" THEN SelectSeq(us, LAMBDA user : user.company.name = company) ELSE us

\* 4. Ordenacao: the comparator given to Array.prototype.sort
BadCompareFn(a, b, order) ==
  LET comparison == localeCompare(a.name, b.name)
  IN IF order = "asc" THEN comparison ELSE IF comparison = 0 THEN 1 ELSE 0 - comparison
compareFn(a, b, order) ==
  LET comparison == localeCompare(a.name, b.name)
  IN IF order = "asc" THEN comparison ELSE 0 - comparison

\* Array.prototype.sort is stable: an element goes behind every element
\* that does not sort after it.
RECURSIVE InsertSorted(_, _, _)
InsertSorted(s, x, order) ==
  IF s = << >> THEN <<x>>
  ELSE IF compareFn(Head(s), x, order) <= 0
       THEN <<Head(s)>> \o InsertSorted(Tail(s), x, order)
       ELSE <<x>> \o s

RECURSIVE sort(_, _)
sort(s, order) ==
  IF s = << >> THEN << >>
  ELSE InsertSorted(sort(SubSeq(s, 1, Len(s) - 1), order), s[Len(s)], order)

\* [...users]: a new array with the elements of `us`; `shared` tells whether
\* the array is the same object as `users`
BadSpread(us) == [elems |-> us, shared |-> TRUE]
Spread(us) == [elems |-> us, shared |-> FALSE]

\* the useMemo body of filteredUsers: the array it returns.
\* Array.prototype.filter returns a new array; Array.prototype.sort sorts
\* the array it is called on in place and returns it.
FilteredUsers(us, search, city, company, order) ==
  sort(CompanyFilterStep(CityFilterStep(TextFilter(Spread(us).elems, search), city),
                         company), order)

\* the array that is sorted is the same object as `users`: the copy is, and
\* no filter step has replaced it by a new array
SharesUsers(us, search, city, company) ==
  Spread(us).shared /\ search = << >> /\ city = "all" /\ company = "all"

\* the elements of the array `users` refers to after the useMemo body has run
UsersAfter(us, search, city, company, order) ==
  IF SharesUsers(us, search, city, company)
  THEN FilteredUsers(us, search, city, company, order)
  ELSE us

\* [...new Set(xs)]: the first occurrence of each value, in order
BadUnique(xs) == xs
RECURSIVE Unique(_)
Unique(xs) ==
  IF xs = << >> THEN << >>
  ELSE LET r == Unique(SubSeq(xs, 1, Len(xs) - 1))
       IN IF xs[Len(xs)] \in Range(r) THEN r ELSE Append(r, xs[Len(xs)])

\* Array.prototype.sort without a comparator: by UTF-16 code units
RECURSIVE InsertByCodeUnits(_, _)
InsertByCodeUnits(s, x) ==
  IF s = << >> THEN <<x>>
  ELSE IF LexCompare(CodeUnits(Head(s)), CodeUnits(x)) <= 0
       THEN <<Head(s)>> \o InsertByCodeUnits(Tail(s), x)
       ELSE <<x>> \o s

RECURSIVE DefaultSort(_)
DefaultSort(s) ==
  IF s = << >> THEN << >>
  ELSE InsertByCodeUnits(DefaultSort(SubSeq(s, 1, Len(s) - 1)), s[Len(s)])

\* the useMemo bodies of cities and companies
Cities(us)    == DefaultSort(Unique([i \in 1..Len(us) |-> us[i].address.city]))
Companies(us) == DefaultSort(Unique([i \in 1..Len(us) |-> us[i].company.name]))

\* the debounce hook of a view that is not being typed into
DbIdle ==
  /\ value = ""
  /\ delay = 0
  /\ debouncedValue = ""
  /\ handler = 0
  /\ clock = 0
  /\ timers = {}
  /\ mounted = TRUE
  /\ inputAt = 0
  /\ superseded = {}
  /\ emitted = {}
  /\ firedUnmounted = FALSE

ViewInit == ViewIdle /\ DbIdle /\ QueryIdle /\ LoginIdle

\* the users query delivers data: `users` changes, every memo recomputes
QueryData(list) ==
  /\ list # fetched
  /\ fetched' = list
  /\ cities' = Cities(list)
  /\ companies' = Companies(list)
  /\ filteredUsers' = FilteredUsers(list, debouncedSearch, cityFilter, companyFilter, sortOrder)
  /\ users' = UsersAfter(list, debouncedSearch, cityFilter, companyFilter, sortOrder)
  /\ UNCHANGED <<debouncedSearch, cityFilter, companyFilter, sortOrder>>
  /\ UNCHANGED otherThanView

\* useDebounce returns a new settled search text
SearchSettles(s) ==
  /\ s # debouncedSearch
  /\ debouncedSearch' = s
  /\ filteredUsers' = FilteredUsers(users, s, cityFilter, companyFilter, sortOrder)
  /\ users' = UsersAfter(users, s, cityFilter, companyFilter, sortOrder)
  /\ UNCHANGED <<cityFilter, companyFilter, sortOrder, cities, companies, fetched>>
  /\ UNCHANGED otherThanView

\* the city select offers "all" and the cities of the fetched list
setCityFilter(c) ==
  /\ c \in {"all"} \cup Range(cities)
  /\ c # cityFilter
  /\ cityFilter' = c
  /\ filteredUsers' = FilteredUsers(users, debouncedSearch, c, companyFilter, sortOrder)
  /\ users' = UsersAfter(users, debouncedSearch, c, companyFilter, sortOrder)
  /\ UNCHANGED <<debouncedSearch, companyFilter, sortOrder, cities, companies, fetched>>
  /\ UNCHANGED otherThanView

setCompanyFilter(c) ==
  /\ c \in {"all"} \cup Range(companies)
  /\ c # companyFilter
  /\ companyFilter' = c
  /\ filteredUsers' = FilteredUsers(users, debouncedSearch, cityFilter, c, sortOrder)
  /\ users' = UsersAfter(users, debouncedSearch, cityFilter, c, sortOrder)
  /\ UNCHANGED <<debouncedSearch, cityFilter, sortOrder, cities, companies, fetched>>
  /\ UNCHANGED otherThanView

toggleSort ==
  /\ sortOrder' = (IF sortOrder = "asc" THEN "desc" ELSE "asc")
  /\ filteredUsers' = FilteredUsers(users, debouncedSearch, cityFilter, companyFilter, sortOrder')
  /\ users' = UsersAfter(users, debouncedSearch, cityFilter, companyFilter, sortOrder')
  /\ UNCHANGED <<debouncedSearch, cityFilter, companyFilter, cities, companies, fetched>>
  /\ UNCHANGED otherThanView

ViewNext ==
  \/ \E list \in UserLists : QueryData(list)
  \/ \E s \in SearchTexts : SearchSettles(s)
  \/ \E c \in {"all", "Gwenborough", "Howemouth"} : setCityFilter(c)
  \/ \E c \in {"all", "Romaguera", "Deckow"} : setCompanyFilter(c)
  \/ toggleSort

SpecView == ViewInit /\ [][ViewNext]_vars

(***************************************************************************)
(* Properties of the pipeline                                              *)
(***************************************************************************)
\* two characters that differ at most in case
SameLetter(c, d) == c = d \/ {c, d} \in {{"A", "a"}, {"B", "b"}, {"N", "n"}}

\* `sub` occurs in `s` at some offset, case ignored
ContainsIgnoringCase(s, sub) ==
  \E i \in 0..(Len(s) - Len(sub)) : \A j \in 1..Len(sub) : SameLetter(s[i + j], sub[j])

TextKeeps(u, search) ==
  \/ search = << >>
  \/ ContainsIgnoringCase(u.name, search)
  \/ ContainsIgnoringCase(u.email, search)

\* C8: of the users that pass the two select filters, the derived list holds
\* exactly those for which the settled search text is empty or occurs, case
\* ignored, in the name or in the email.
C8_TextFilter ==
  Range(filteredUsers) =
    {u \in Range(CompanyFilterStep(CityFilterStep(users, cityFilter), companyFilter)) :
       TextKeeps(u, debouncedSearch)}

\* the search "An" keeps User1 by its name "Ann" and User2 by its email
\* "an@b", and drops User4, which has it in neither
C8_Witness ==
  /\ debouncedSearch = <<"A", "n">>
  /\ {User1, User2, User4} \subseteq Range(users)
  /\ Range(filteredUsers) = {User1, User2}

\* C9: with the city (company) filter at a value other than "all", the
\* derived list holds exactly the users surviving the other steps whose
\* city (company name) equals it; at "all" the step removes no user.
C9_SelectFilters ==
  /\ LET others == Range(CompanyFilterStep(TextFilter(users, debouncedSearch), companyFilter))
     IN Range(filteredUsers) =
          IF cityFilter = "all" THEN others
          ELSE {u \in others : u.address.city = cityFilter}
  /\ LET others == Range(CityFilterStep(TextFilter(users, debouncedSearch), cityFilter))
     IN Range(filteredUsers) =
          IF companyFilter = "all" THEN others
          ELSE {u \in others : u.company.name = companyFilter}

\* a list of both cities filtered by city, every company allowed
C9_Witness ==
  /\ cityFilter = "Gwenborough"
  /\ companyFilter = "all"
  /\ debouncedSearch = << >>
  /\ {User1, User2, User3} = Range(users)
  /\ Range(filteredUsers) = {User1, User3}

\* position of a user in the fetched list
Pos(us, u) == CHOOSE i \in 1..Len(us) : us[i] = u

\* C10: the derived list is the surviving users in the order of the name
\* comparison, ascending for "asc" and descending for "desc"; users whose
\* names compare equal stay in the order of the fetched list.
C10_SortedStable ==
  LET f == filteredUsers
      survivors == CompanyFilterStep(CityFilterStep(TextFilter(users, debouncedSearch),
                                                    cityFilter), companyFilter)
  IN /\ Len(f) = Len(survivors)
     /\ Range(f) = Range(survivors)
     /\ \A i, j \in 1..Len(f) : i < j =>
          /\ sortOrder = "asc"  => localeCompare(f[i].name, f[j].name) <= 0
          /\ sortOrder = "desc" => localeCompare(f[i].name, f[j].name) >= 0
          /\ localeCompare(f[i].name, f[j].name) = 0 => Pos(users, f[i]) < Pos(users, f[j])

\* descending: the two users named "Nb" first, in the order they were
\* fetched, and "Ann" behind them
C10_Witness ==
  /\ sortOrder = "desc"
  /\ users = <<User1, User4, User2>>
  /\ filteredUsers = <<User4, User2, User1>>

\* C11: the derived list is a function of (users, search text, city filter,
\* company filter, sort direction) alone: computing it again from the same
\* inputs, and once more after that, yields the list the view holds; and the
\* computations leave the fetched list as the query delivered it, the same
\* elements in the same order.
C11_PureIdempotent ==
  LET once  == FilteredUsers(users, debouncedSearch, cityFilter, companyFilter, sortOrder)
      after == UsersAfter(users, debouncedSearch, cityFilter, companyFilter, sortOrder)
      twice == FilteredUsers(after, debouncedSearch, cityFilter, companyFilter, sortOrder)
  IN /\ once = filteredUsers
     /\ twice = once
     /\ after = users
     /\ UsersAfter(after, debouncedSearch, cityFilter, companyFilter, sortOrder) = users
     /\ users = fetched

\* no filter is active, so the sorted array is the copy made of `users`;
\* the derived list is in another order than the fetched list, which is as
\* it was delivered
C11_Witness ==
  /\ debouncedSearch = << >>
  /\ cityFilter = "all"
  /\ companyFilter = "all"
  /\ fetched = <<User2, User1>>
  /\ users = <<User2, User1>>
  /\ filteredUsers = <<User1, User2>>

\* a list of names without duplicates, ascending by UTF-16 code units
SortedDistinct(names) ==
  \A i, j \in 1..Len(names) :
    i < j => LexCompare(CodeUnits(names[i]), CodeUnits(names[j])) < 0

\* C15: the city choices are exactly the cities of the users of the fetched
\* list, each once and in ascending order, and likewise the company choices
\* with the company names; a step that leaves the fetched list as it is
\* (a new search text, city filter, company filter or sort direction)
\* leaves both lists of choices as they are.
C15_FilterChoices ==
  /\ [](/\ Range(cities) = {u.address.city : u \in Range(fetched)}
        /\ Range(companies) = {u.company.name : u \in Range(fetched)}
        /\ SortedDistinct(cities)
        /\ SortedDistinct(companies))
  /\ [][fetched' = fetched => (cities' = cities /\ companies' = companies)]_vars

\* three users of two cities and two companies, fetched with the later
\* names first; a search text, a city filter and the descending direction
\* are set, and the choices still cover the whole fetched list
C15_Witness ==
  /\ fetched = <<User2, User1, User3>>
  /\ cities = <<"Gwenborough", "Howemouth">>
  /\ companies = <<"Deckow", "Romaguera">>
  /\ debouncedSearch # << >>
  /\ cityFilter = "Howemouth"
  /\ sortOrder = "desc"
  /\ Len(filteredUsers) = 1

(***************************************************************************)
(* useQuery: the query of one key                                          *)
(***************************************************************************)
\* staleTime of the observer of a key
staleTime(k) == IF k = UsersKey THEN StaleTime ELSE 0

\* data is stale once staleTime has passed since it was stored
BadIsStale(q, k) == ~q.hasData \/ now - q.updatedAt > staleTime(k)
isStale(q, k) == ~q.hasData \/ now - q.updatedAt >= staleTime(k)

\* enabled: true for the users query, !!id for the user query,
\* !!id && !!user for the posts query
BadEnabled(k, qs) == k[1] # "posts" \/ k[2] # NoId
enabled(k, qs) == k[1] # "posts" \/ qs[UserKey(k[2])].hasData

\* the view that holds the observer of a key is mounted
observed(k) ==
  IF k = UsersKey THEN route = "users" ELSE route = "detail" /\ id = k[2]

\* a new fetch: queryFn is invoked
start(q) ==
  [q EXCEPT !.phase = "call", !.failureCount = 0, !.retryCancelled = FALSE,
            !.status = IF q.hasData THEN @ ELSE "loading",
            !.inflight = @ + 1]

\* Query.fetch: a fetch already running is joined, unless the caller asks
\* to cancel it and data is there: then the running fetch is abandoned (its
\* request is not aborted, queryFn ignores the signal) and a new one starts
fetch(q, cancelRefetch) ==
  IF q.phase # "idle"
  THEN IF q.hasData /\ cancelRefetch
       THEN start([q EXCEPT !.abandoned = IF q.phase = "call" THEN @ + 1 ELSE @,
                            !.phase = "idle"])
       ELSE [q EXCEPT !.retryCancelled = FALSE]
  ELSE start(q)

\* an observer mounts, or the window regains focus: fetch if enabled and stale
fetchIfStale(q, k, qs) ==
  IF enabled(k, qs) /\ isStale(q, k) THEN fetch(q, FALSE) ELSE q

\* queryFn resolved with `d`: the data is stored with the time
onSuccess(q, d) ==
  [q EXCEPT !.status = "success", !.hasData = TRUE, !.data = d, !.updatedAt = now,
            !.failureCount = 0, !.phase = "idle", !.inflight = @ - 1]

\* queryFn threw (network error or !response.ok): retried after a delay
\* unless the retries are used up or no observer is left
BadOnError(q) ==
  [q EXCEPT !.status = "error", !.phase = "idle", !.failureCount = @ + 1,
            !.inflight = @ - 1]
CachingOnError(q) ==
  [q EXCEPT !.status = "error", !.phase = "idle", !.failureCount = @ + 1,
            !.inflight = @ - 1, !.hasData = TRUE, !.data = "some", !.updatedAt = now]
onError(q) ==
  IF q.retryCancelled \/ q.failureCount >= Retry
  THEN [q EXCEPT !.status = "error", !.phase = "idle", !.failureCount = @ + 1,
                 !.inflight = @ - 1]
  ELSE [q EXCEPT !.phase = "wait", !.failureCount = @ + 1, !.inflight = @ - 1]

\* the retry delay is over
onRetryTimer(q) ==
  IF q.retryCancelled
  THEN [q EXCEPT !.status = "error", !.phase = "idle", !.failureCount = @ + 1]
  ELSE [q EXCEPT !.phase = "call", !.inflight = @ + 1]

\* the last observer of a key goes away: a running fetch goes on, its
\* retries are cancelled
onUnsubscribe(q) ==
  IF q.phase # "idle" THEN [q EXCEPT !.retryCancelled = TRUE] ELSE q

\* the render after the user query got its first data enables the posts
\* query of the mounted detail view, which then fetches
EnablePosts(old, new) ==
  [k \in Keys |->
     IF /\ k[1] = "posts"
        /\ observed(k)
        /\ ~enabled(k, old)
        /\ enabled(k, new)
     THEN fetchIfStale(new[k], k, new)
     ELSE new[k]]

WithinBound(qs) == \A k \in Keys : qs[k].inflight <= MaxInflight

(***************************************************************************)
(* Events of the queries                                                   *)
(***************************************************************************)
\* the request of the running fetch of key k comes back with 2xx and JSON
LoaderSuccess(k) ==
  /\ queries[k].phase = "call"
  /\ \E d \in Payloads(k) :
       queries' = EnablePosts(queries, [queries EXCEPT ![k] = onSuccess(@, d)])
  /\ WithinBound(queries')
  /\ UNCHANGED <<route, id, now, lastMount>>
  /\ UNCHANGED otherThanQuery

\* a failure of the posts request that makes the user query fetch again
BadLoaderFailure(k) ==
  /\ queries[k].phase = "call"
  /\ queries' = [j \in Keys |->
                   IF j = k THEN onError(queries[j])
                   ELSE IF k[1] = "posts" /\ j = UserKey(k[2]) THEN fetch(queries[j], TRUE)
                   ELSE queries[j]]
  /\ WithinBound(queries')
  /\ UNCHANGED <<route, id, now, lastMount>>
  /\ UNCHANGED otherThanQuery

\* the request of the running fetch of key k fails
LoaderFailure(k) ==
  /\ queries[k].phase = "call"
  /\ queries' = [queries EXCEPT ![k] = onError(@)]
  /\ UNCHANGED <<route, id, now, lastMount>>
  /\ UNCHANGED otherThanQuery

RetryTimer(k) ==
  /\ queries[k].phase = "wait"
  /\ queries' = [queries EXCEPT ![k] = onRetryTimer(@)]
  /\ WithinBound(queries')
  /\ UNCHANGED <<route, id, now, lastMount>>
  /\ UNCHANGED otherThanQuery

\* a request that no fetch waits for any more comes back; nobody reads it
StrayResponse(k) ==
  /\ queries[k].inflight > (IF queries[k].phase = "call" THEN 1 ELSE 0)
  /\ queries' = [queries EXCEPT ![k].inflight = @ - 1,
                                ![k].abandoned = IF @ > 0 THEN @ - 1 ELSE 0]
  /\ UNCHANGED <<route, id, now, lastMount>>
  /\ UNCHANGED otherThanQuery

\* the window regains focus: every observed query refetches if stale
WindowFocus ==
  /\ route # "away"
  /\ queries' = [k \in Keys |->
                   IF observed(k) THEN fetchIfStale(queries[k], k, queries)
                   ELSE queries[k]]
  /\ queries' # queries
  /\ WithinBound(queries')
  /\ UNCHANGED <<route, id, now, lastMount>>
  /\ UNCHANGED otherThanQuery

QueryTick ==
  /\ now < MaxTime
  /\ now' = now + 1
  /\ UNCHANGED <<route, id, queries, lastMount>>
  /\ UNCHANGED otherThanQuery

(***************************************************************************)
(* The list view and its users query                                       *)
(***************************************************************************)
\* what a mount did to get its data: "fetch" (queryFn invoked), "join" (a
\* running fetch awaited) or "cache" (the cached data served as it is)
MountOutcome(q, q2) ==
  [kind |-> IF q2.inflight > q.inflight THEN "fetch"
            ELSE IF q.phase # "idle" THEN "join" ELSE "cache",
   age  |-> IF q.hasData THEN now - q.updatedAt ELSE 0 - 1]

\* navigate to /users: Users mounts, its useQuery subscribes
MountUsers ==
  /\ route = "away"
  /\ route' = "users"
  /\ queries' = [queries EXCEPT ![UsersKey] = fetchIfStale(@, UsersKey, queries)]
  /\ WithinBound(queries')
  /\ lastMount' = MountOutcome(queries[UsersKey], queries'[UsersKey])
  /\ UNCHANGED <<id, now>>
  /\ UNCHANGED otherThanQuery

\* navigate away from /users
UnmountUsers ==
  /\ route = "users"
  /\ route' = "away"
  /\ queries' = [queries EXCEPT ![UsersKey] = onUnsubscribe(@)]
  /\ UNCHANGED <<id, now, lastMount>>
  /\ UNCHANGED otherThanQuery

isLoading(q) == q.status = "loading"
isError(q)   == q.status = "error"

\* "Tentar novamente": shown in the error state, calls refetch()
Refetch ==
  /\ route = "users"
  /\ ~isLoading(queries[UsersKey])
  /\ isError(queries[UsersKey])
  /\ queries' = [queries EXCEPT ![UsersKey] = fetch(@, TRUE)]
  /\ queries' # queries
  /\ WithinBound(queries')
  /\ UNCHANGED <<route, id, now, lastMount>>
  /\ UNCHANGED otherThanQuery

ListInit == QueryIdle /\ ViewIdle /\ DbIdle /\ LoginIdle

ListNext ==
  \/ MountUsers
  \/ UnmountUsers
  \/ Refetch
  \/ WindowFocus
  \/ LoaderSuccess(UsersKey)
  \/ LoaderFailure(UsersKey)
  \/ RetryTimer(UsersKey)
  \/ StrayResponse(UsersKey)
  \/ QueryTick

SpecList == ListInit /\ [][ListNext]_vars

(***************************************************************************)
(* Properties of the users query                                           *)
(***************************************************************************)
\* C4 as stated: at most one request per key is in flight at any time.
C4_OneRequestInFlight ==
  \A k \in Keys : queries[k].inflight <= 1

\* C5 as stated: a mount of the list view is served from the cache, without
\* queryFn, while now - timestamp <= 5 minutes, and never when it is more.
C5_FreshUpToFiveMinutes ==
  /\ (lastMount.kind # "none" /\ lastMount.age >= 0 /\ lastMount.age <= StaleTime)
       => lastMount.kind = "cache"
  /\ (lastMount.kind # "none" /\ lastMount.age > StaleTime)
       => lastMount.kind # "cache"

\* C5, amended: a mount of the list view is served from the cache, without
\* queryFn, while now - timestamp < 5 minutes; from 5 minutes on the data
\* is stale and the mount fetches (or awaits the fetch already running).
C5_FreshBelowFiveMinutes ==
  /\ (lastMount.kind # "none" /\ lastMount.age >= 0 /\ lastMount.age < StaleTime)
       => lastMount.kind = "cache"
  /\ (lastMount.kind # "none" /\ lastMount.age >= StaleTime)
       => lastMount.kind \in {"fetch", "join"}

\* the list view was mounted again 4 minutes after the data was stored and
\* no request went out
C5_Witness ==
  /\ route = "users"
  /\ lastMount = [kind |-> "cache", age |-> StaleTime - 1]
  /\ queries[UsersKey].inflight = 0
  /\ queries[UsersKey].updatedAt = now - (StaleTime - 1)

\* the step is a failure of the running request of key k
LoaderFailed(k) ==
  /\ queries[k].phase = "call"
  /\ queries'[k].failureCount = queries[k].failureCount + 1

\* C6 as stated: a failure of the loader puts the query in the error state
\* that the views read.
C6_EveryFailureSurfaced ==
  [][\A k \in Keys : LoaderFailed(k) => isError(queries'[k])]_vars

\* C6, amended: a failure of the loader stores nothing; once the loader has
\* failed on the last attempt (the 3 retries are used up, or no observer is
\* left) the query is in the error state that the views read; and mounting
\* the view of a query in the error state invokes the loader again.
C6_FailureNotCached ==
  [][\A k \in Keys :
       LET q == queries[k]
           q2 == queries'[k]
       IN /\ LoaderFailed(k) => (q2.hasData = q.hasData /\ q2.updatedAt = q.updatedAt)
          /\ (LoaderFailed(k) /\ (q.failureCount >= Retry \/ q.retryCancelled))
               => (isError(q2) /\ q2.phase = "idle")
          /\ (isError(q) /\ q.phase = "idle" /\ k = UsersKey
                /\ route = "away" /\ route' = "users")
               => (q2.phase = "call" /\ q2.inflight = q.inflight + 1)]_vars

\* the first fetch of the list view has failed for good: error state shown,
\* nothing cached
C6_Witness ==
  /\ route = "users"
  /\ isError(queries[UsersKey])
  /\ queries[UsersKey].failureCount = Retry + 1
  /\ ~queries[UsersKey].hasData
  /\ lastMount.kind = "fetch"

\* C7 as stated: once a loader invocation of a fetch has failed, the loader
\* is invoked again only from the error state of the mounted list view,
\* where the retry button is.
C7_OnlyManualRetry ==
  [][\A k \in Keys :
       (queries'[k].inflight = queries[k].inflight + 1 /\ queries[k].failureCount > 0)
         => (k = UsersKey /\ route = "users" /\ isError(queries[k]))]_vars

\* C7, amended: a failed loader invocation is retried automatically, up to
\* 3 times, while the view stays mounted; the error state (and with it the
\* retry button) is reached only after the first invocation and the 3
\* retries have all failed, or after the view was unmounted during the fetch.
C7_ErrorAfterRetries ==
  \A k \in Keys :
    /\ (isError(queries[k]) /\ queries[k].phase = "idle")
         => (queries[k].failureCount = Retry + 1 \/ queries[k].retryCancelled)
    /\ queries[k].phase = "wait"
         => queries[k].failureCount \in 1..Retry

\* the list view shows the error state after four failed invocations
C7_Witness ==
  /\ route = "users"
  /\ isError(queries[UsersKey])
  /\ queries[UsersKey].phase = "idle"
  /\ queries[UsersKey].failureCount = Retry + 1
  /\ ~queries[UsersKey].retryCancelled
  /\ queries[UsersKey].hasData

(***************************************************************************)
(* The detail view: the user query and the posts query that depends on it  *)
(***************************************************************************)
\* navigate to /users/:id: UserDetail mounts, both useQuery subscribe; the
\* user query is enabled by !!id, the posts query by !!id && !!user
MountDetail(i) ==
  /\ route = "away"
  /\ route' = "detail"
  /\ id' = i
  /\ queries' = [k \in Keys |->
                   IF i # NoId /\ k \in {UserKey(i), PostsKey(i)}
                   THEN fetchIfStale(queries[k], k, queries)
                   ELSE queries[k]]
  /\ WithinBound(queries')
  /\ UNCHANGED <<now, lastMount>>
  /\ UNCHANGED otherThanQuery

\* "Voltar", or any navigation away from the detail view
UnmountDetail ==
  /\ route = "detail"
  /\ route' = "away"
  /\ queries' = [k \in Keys |-> IF observed(k) THEN onUnsubscribe(queries[k])
                                ELSE queries[k]]
  /\ UNCHANGED <<id, now, lastMount>>
  /\ UNCHANGED otherThanQuery

DetailKeys == {UserKey(i) : i \in Ids} \cup {PostsKey(i) : i \in Ids}

DetailInit == QueryIdle /\ ViewIdle /\ DbIdle /\ LoginIdle

DetailNext ==
  \/ \E i \in Ids \cup {NoId} : MountDetail(i)
  \/ UnmountDetail
  \/ WindowFocus
  \/ \E k \in DetailKeys : LoaderSuccess(k)
  \/ \E k \in DetailKeys : LoaderFailure(k)
  \/ \E k \in DetailKeys : RetryTimer(k)

SpecDetail == DetailInit /\ [][DetailNext]_vars

(***************************************************************************)
(* The error pages of the two views                                        *)
(***************************************************************************)
\* the list view renders its error page
UsersShowsError ==
  /\ route = "users"
  /\ ~isLoading(queries[UsersKey])
  /\ isError(queries[UsersKey])

\* the detail view of a user renders its error page: isErrorUser || !user
DetailShowsError ==
  /\ route = "detail"
  /\ id \in Ids
  /\ ~isLoading(queries[UserKey(id)])
  /\ (isError(queries[UserKey(id)]) \/ ~queries[UserKey(id)].hasData)

\* the buttons each error page renders
ErrorPageButtons(view) ==
  IF view = "users" THEN {"Tentar novamente"} ELSE {"Voltar"}

\* onClick of a button of an error page: () => refetch(), handleBack
Press(view, b) ==
  \/ view = "users" /\ b = "Tentar novamente" /\ Refetch
  \/ view = "detail" /\ b = "Voltar" /\ UnmountDetail

\* the step invokes the loader of key k
Reissues(k) == queries'[k].inflight = queries[k].inflight + 1

\* C13 as stated: when a view shows the error page for its top-level fetch
\* and that fetch is over, one of the page's buttons invokes the loader of
\* that fetch again: the users fetch in the list view, the user fetch in the
\* detail view.
C13_RetryOffered ==
  /\ (UsersShowsError /\ queries[UsersKey].phase = "idle")
       => \E b \in ErrorPageButtons("users") :
            ENABLED (Press("users", b) /\ Reissues(UsersKey))
  /\ (DetailShowsError /\ isError(queries[UserKey(id)])
         /\ queries[UserKey(id)].phase = "idle")
       => \E b \in ErrorPageButtons("detail") :
            ENABLED (Press("detail", b) /\ Reissues(UserKey(id)))

\* the list view's half of C13
C13_ListRetryOffered ==
  (UsersShowsError /\ queries[UsersKey].phase = "idle")
    => \E b \in ErrorPageButtons("users") :
         ENABLED (Press("users", b) /\ Reissues(UsersKey))

\* what UserDetail returns: the skeleton while the user loads, the error
\* page on isErrorUser || !user, the profile with the posts card otherwise
DetailPage ==
  IF route # "detail" THEN "none"
  ELSE LET user == IF id \in Ids THEN queries[UserKey(id)] ELSE NewQuery
       IN IF id \in Ids /\ isLoading(user) THEN "skeleton"
          ELSE IF isError(user) \/ ~user.hasData THEN "error"
          ELSE "profile"

\* the content of the posts card for a posts query: each block is rendered
\* under its own condition; `posts` defaults to [] while there is no data
PostsArea(q) ==
  LET length == IF q.data = "some" THEN 1 ELSE 0
  IN {b \in {"skeleton", "Sem posts para este utilizador", "posts"} :
        \/ b = "skeleton" /\ isLoading(q)
        \/ b = "Sem posts para este utilizador" /\ isError(q)
        \/ b = "Sem posts para este utilizador"
             /\ ~isLoading(q) /\ ~isError(q) /\ length = 0
        \/ b = "posts" /\ ~isLoading(q) /\ ~isError(q) /\ length > 0}

(***************************************************************************)
(* Properties of the detail view                                           *)
(***************************************************************************)
\* the step invokes the loader of the posts of user i
PostsIssued(i) ==
  queries'[PostsKey(i)].inflight = queries[PostsKey(i)].inflight + 1

\* C3 as stated: whenever the posts fetch of an id is issued, the user fetch
\* of that id has resolved successfully: none is running and the user query
\* is not in the error state.
C3_PostsAfterUserResolved ==
  [][\A i \in Ids :
       PostsIssued(i) => /\ queries'[UserKey(i)].status = "success"
                         /\ queries'[UserKey(i)].phase = "idle"]_vars

\* C3, amended: the posts fetch of an id is issued only in the detail view
\* of that id and only once a user fetch of that id has resolved
\* successfully, so that the user is in the cache; while no user fetch of
\* the id has succeeded, or no id is present, no posts fetch is issued.
C3_PostsNeedCachedUser ==
  [][\A i \in Ids :
       /\ PostsIssued(i) => /\ queries'[UserKey(i)].hasData
                            /\ route' = "detail"
                            /\ id' = i
       /\ ~queries'[UserKey(i)].hasData => queries'[PostsKey(i)] = NewQuery]_vars

\* the posts are being fetched in the detail view although the last fetch
\* of the user, a refetch of the cached user, has failed
C3_Witness ==
  /\ route = "detail"
  /\ id \in Ids
  /\ queries[UserKey(id)].status = "error"
  /\ queries[UserKey(id)].hasData
  /\ queries[PostsKey(id)].phase = "call"

\* a posts query that fetched an empty list
EmptyPosts == [NewQuery EXCEPT !.status = "success", !.hasData = TRUE, !.data = "empty"]

\* C14: a failure of the posts request changes nothing of the user query
\* (its cached data, its status, its requests in flight: none is issued) nor
\* of what the detail view shows of the user; and once the posts query is in
\* the error state under a shown profile, the posts card shows exactly what
\* it shows for an empty list of posts.
C14_PostsFailureFrame ==
  [][\A i \in Ids :
       LoaderFailed(PostsKey(i)) =>
         /\ queries'[UserKey(i)] = queries[UserKey(i)]
         /\ DetailPage' = DetailPage
         /\ (DetailPage' = "profile" /\ isError(queries'[PostsKey(i)]))
              => /\ PostsArea(queries'[PostsKey(i)]) = PostsArea(EmptyPosts)
                 /\ PostsArea(EmptyPosts) = {"Sem posts para este utilizador"}]_vars

\* the profile is shown from the cached user, in the success state, and the
\* posts fetch has failed for good
C14_Witness ==
  /\ route = "detail"
  /\ id \in Ids
  /\ DetailPage = "profile"
  /\ queries[UserKey(id)].status = "success"
  /\ queries[UserKey(id)].phase = "idle"
  /\ isError(queries[PostsKey(id)])
  /\ queries[PostsKey(id)].failureCount = Retry + 1
  /\ PostsArea(queries[PostsKey(id)]) = {"Sem posts para este utilizador"}

(***************************************************************************)
(* The login form                                                          *)
(***************************************************************************)
EmailChars == {"a", "@", ".", " "}
Passwords  == {"", " ", "p"}

\* [^\s@]+ : one or more characters, none of them white space or "@"
NoSpaceNoAt(s) == s # << >> /\ \A i \in 1..Len(s) : s[i] \notin {" ", "@"}

\* /^[^\s@]+@[^\s@]+\.[^\s@]+$/.test(e): an accepting match splits the whole
\* text at a "@" and at a later "."
BadValidateEmail(e) == \E i \in 1..Len(e) : e[i] = "@"
validateEmail(e) ==
  \E i, j \in 1..Len(e) :
    /\ i < j
    /\ NoSpaceNoAt(SubSeq(e, 1, i - 1))
    /\ e[i] = "@"
    /\ NoSpaceNoAt(SubSeq(e, i + 1, j - 1))
    /\ e[j] = "."
    /\ NoSpaceNoAt(SubSeq(e, j + 1, Len(e)))

\* the Login view is mounted with its first render; no query has run
LoginInit ==
  /\ LoginIdle
  /\ ViewIdle
  /\ DbIdle
  /\ route = "login"
  /\ id = NoId
  /\ queries = [k \in Keys |-> NewQuery]
  /\ now = 0
  /\ lastMount = [kind |-> "none", age |-> 0]

\* onChange of the email field: setEmail(e.target.value), a character typed
TypeEmail(c) ==
  /\ route = "login"
  /\ Len(email) < MaxEmail
  /\ email' = Append(email, c)
  /\ UNCHANGED <<password, errors, loginIsLoading, loginTimer, submits, submitWasValid>>
  /\ UNCHANGED <<otherThanLogin, qVars>>

\* onChange of the email field: the last character deleted
EraseEmail ==
  /\ route = "login"
  /\ email # << >>
  /\ email' = SubSeq(email, 1, Len(email) - 1)
  /\ UNCHANGED <<password, errors, loginIsLoading, loginTimer, submits, submitWasValid>>
  /\ UNCHANGED <<otherThanLogin, qVars>>

\* onChange of the password field
setPassword(p) ==
  /\ route = "login"
  /\ p # password
  /\ password' = p
  /\ UNCHANGED <<email, errors, loginIsLoading, loginTimer, submits, submitWasValid>>
  /\ UNCHANGED <<otherThanLogin, qVars>>

\* the text has no white space, one "@" that is not its first character,
\* and after the "@" a "." that neither follows it directly nor ends the text
WellFormed(e) ==
  /\ \A i \in 1..Len(e) : e[i] # " "
  /\ Cardinality({i \in 1..Len(e) : e[i] = "@"}) = 1
  /\ \E i, j \in 1..Len(e) : e[i] = "@" /\ e[j] = "." /\ 1 < i /\ i + 1 < j /\ j < Len(e)

\* onSubmit of the form; the submit button is disabled while isLoading.
\* The browser's own check of a type="email" field keeps some texts from
\* reaching the handler; here every text reaches it.
handleSubmit ==
  /\ route = "login"
  /\ ~loginIsLoading
  /\ submits < MaxSubmits
  /\ LET newErrors ==
           [email    |-> IF email = << >> THEN "Email e obrigatorio"
                         ELSE IF ~validateEmail(email) THEN "Email invalido"
                         ELSE "",
            password |-> IF password = "" THEN "Password e obrigatoria" ELSE ""]
     IN IF newErrors.email # "" \/ newErrors.password # ""
        THEN /\ errors' = newErrors
             /\ UNCHANGED <<loginIsLoading, loginTimer>>
        ELSE /\ errors' = [email |-> "", password |-> ""]
             /\ loginIsLoading' = TRUE
             /\ loginTimer' = TRUE
  /\ submits' = submits + 1
  /\ submitWasValid' = (WellFormed(email) /\ password # "")
  /\ UNCHANGED <<email, password>>
  /\ UNCHANGED <<otherThanLogin, qVars>>

\* the callback of setTimeout(..., 500): setIsLoading(false), the toast and
\* navigate("/users"), on which Users mounts and its useQuery subscribes
LoginTimeout ==
  /\ loginTimer
  /\ loginTimer' = FALSE
  /\ loginIsLoading' = FALSE
  /\ route' = "users"
  /\ queries' = [queries EXCEPT ![UsersKey] = fetchIfStale(@, UsersKey, queries)]
  /\ lastMount' = MountOutcome(queries[UsersKey], queries'[UsersKey])
  /\ UNCHANGED <<email, password, errors, submits, submitWasValid>>
  /\ UNCHANGED <<id, now>>
  /\ UNCHANGED otherThanLogin

LoginNext ==
  \/ \E c \in EmailChars : TypeEmail(c)
  \/ EraseEmail
  \/ \E p \in Passwords : setPassword(p)
  \/ handleSubmit
  \/ LoginTimeout

\* a pending timeout's callback is run
SpecLogin == LoginInit /\ [][LoginNext]_vars /\ WF_vars(LoginTimeout)

\* C16: a submit with a well-formed email and a non-empty password clears
\* the field errors and enters the loading state with the navigation
\* scheduled; any other submit sets the error of each offending field (and
\* of no other), stays out of the loading state and on the login view; the
\* form leaves for the list view only from the loading state of a valid
\* submit, and once in the loading state it does get to the list view.
C16_LoginGate ==
  /\ [][submits' = submits + 1 =>
         IF WellFormed(email) /\ password # ""
         THEN /\ loginIsLoading' /\ loginTimer'
              /\ errors' = [email |-> "", password |-> ""]
              /\ route' = "login"
         ELSE /\ ~loginIsLoading' /\ ~loginTimer'
              /\ route' = "login"
              /\ errors'.email = (IF email = << >> THEN "Email e obrigatorio"
                                  ELSE IF ~WellFormed(email) THEN "Email invalido"
                                  ELSE "")
              /\ errors'.password = (IF password = "" THEN "Password e obrigatoria"
                                     ELSE "")]_vars
  /\ [][route' # route =>
         /\ route = "login" /\ route' = "users"
         /\ loginIsLoading /\ submitWasValid
         /\ ~loginIsLoading']_vars
  /\ [](loginIsLoading => (loginTimer /\ submitWasValid /\ route = "login"))
  /\ (loginIsLoading ~> route = "users")

\* the list view was reached on the second submit, the first one having
\* been turned down; the users fetch has started
C16_Witness ==
  /\ route = "users"
  /\ submits = 2
  /\ submitWasValid
  /\ email = <<"a", "@", "a", ".", "a">>
  /\ password # ""
  /\ ~loginIsLoading
  /\ queries[UsersKey].phase = "call"

====
